---- MODULE Spec2Model ----
(***************************************************************************)
(* Entitlement and pricing engine of the e-learning backend: the plan-type *)
(* rules (planTypeValidation), the purchase controller, the Razorpay and   *)
(* Stripe enrollment routers and the two access evaluators, over the       *)
(* tables category, topics, user_topics, topic_enrollments and             *)
(* user_category_bundles.                                                  *)
(***************************************************************************)
EXTENDS Integers, Sequences, FiniteSets, TLC

\* ---------------------------------------------------------------- bounds
MaxTime == 1
MaxOrders == 2
MaxSelected == 2

\* ------------------------------------------------------------ identifiers
UserIds == {1, 2}
CategoryIds == {1, 2}
TopicIds == {1, 2}

\* 0 stands for a field that is absent from the request body (undefined).
Absent == 0

PlanTypes == {"FREE", "INDIVIDUAL", "BUNDLE", "FLEXIBLE"}

\* Prices used as inputs (major units).
BundlePriceInputs == {0, 50}
AmountInputs == {Absent, 70}

PurchaseTypes == {"bundle", "individual", "individual_topics", "free", "gift", "undefined"}

VARIABLES
  now,                \* the database clock, NOW()
  category,           \* table category
  topics,             \* table topics
  user_topics,        \* table user_topics (Razorpay and Stripe routers)
  topic_enrollments,  \* table topic_enrollments (purchase controller)
  bundles,            \* table user_category_bundles
  orders,             \* Razorpay orders created so far
  paid,               \* Razorpay orders the gateway has a payment (and a signature) for
  sessions,           \* Stripe checkout sessions
  rows,               \* the number of stored rows per table and key
  call,               \* the latest call of a plan-type rule: function, arguments, result
  inflight            \* a bundle create-order past its checks, awaiting the gateway's order

vars == <<now, category, topics, user_topics, topic_enrollments, bundles, orders, paid, sessions,
          rows, call, inflight>>

\* ------------------------------------------------------------------ rows
\* The SQL NULL of a nullable numeric column.
Null == -1
NoCategory == [exists |-> FALSE, plan_type |-> "FREE", bundle_price |-> 0]
NoTopic == [exists |-> FALSE, category_id |-> 0, created_at |-> 0, price |-> 0, is_free |-> FALSE]
NoBundle == [payment_status |-> "none", order_id |-> 0, created_at |-> 0, enrolled_at |-> 0,
             future_topics_included |-> FALSE]
NoRequest == [active |-> FALSE, userId |-> 0, categoryId |-> 0, price |-> 0]

Init ==
  /\ now = 0
  /\ category = [c \in CategoryIds |-> NoCategory]
  /\ topics = [t \in TopicIds |-> NoTopic]
  /\ user_topics = [u \in UserIds |-> [t \in TopicIds |-> "none"]]
  /\ topic_enrollments = [u \in UserIds |-> [t \in TopicIds |-> "none"]]
  /\ bundles = [u \in UserIds |-> [c \in CategoryIds |-> NoBundle]]
  /\ orders = << >>
  /\ paid = {}
  /\ sessions = [u \in UserIds |-> [t \in TopicIds |-> "none"]]
  /\ rows = [user_topics |-> [u \in UserIds |-> [t \in TopicIds |-> 0]],
             topic_enrollments |-> [u \in UserIds |-> [t \in TopicIds |-> 0]],
             user_category_bundles |-> [u \in UserIds |-> [c \in CategoryIds |-> 0]]]
  /\ call = [fn |-> "none"]
  /\ inflight = NoRequest

\* ------------------------------------------------------- planTypeValidation

\* getPricingRequirements: the requirements of a plan type, or a thrown error.
getPricingRequirements(planType) ==
  CASE planType = "FREE" ->
         [threw |-> FALSE, requireBundlePrice |-> FALSE, requireTopicPrices |-> FALSE]
    [] planType = "INDIVIDUAL" ->
         [threw |-> FALSE, requireBundlePrice |-> FALSE, requireTopicPrices |-> TRUE]
    [] planType = "BUNDLE" ->
         [threw |-> FALSE, requireBundlePrice |-> TRUE, requireTopicPrices |-> FALSE]
    [] planType = "FLEXIBLE" ->
         [threw |-> FALSE, requireBundlePrice |-> TRUE, requireTopicPrices |-> TRUE]
    [] OTHER ->
         [threw |-> TRUE, requireBundlePrice |-> FALSE, requireTopicPrices |-> FALSE]

\* validateCategoryPricing: "valid", "invalid", or "threw" when the plan type is unknown.
validateCategoryPricing(bundle_price, planType) ==
  LET requirements == getPricingRequirements(planType) IN
  IF requirements.threw THEN "threw"
  ELSE IF requirements.requireBundlePrice /\ bundle_price <= 0 THEN "invalid"
  ELSE "valid"

\* A slip in the BUNDLE case: the test for the bundle kind is missing.
validateBundlePurchaseLax(purchaseType) ==
  IF purchaseType \in {"individual", "individual_topics"} THEN FALSE
  ELSE TRUE

\* validatePurchaseRequest, case BUNDLE
validateBundlePurchase(purchaseType) ==
  IF purchaseType \in {"individual", "individual_topics"} THEN FALSE
  ELSE IF purchaseType # "bundle" THEN FALSE
  ELSE TRUE

\* validatePurchaseRequest, case INDIVIDUAL
validateIndividualPurchase(purchaseType, topicIds) ==
  IF purchaseType = "bundle" THEN FALSE
  ELSE IF Len(topicIds) = 0 THEN FALSE
  ELSE TRUE

\* A slip in the FLEXIBLE case: an individual purchase passes without a selection.
validateFlexiblePurchaseNoSelection(purchaseType, topicIds) ==
  IF purchaseType = "bundle" THEN TRUE
  ELSE IF purchaseType \in {"individual", "individual_topics"} THEN TRUE
  ELSE IF purchaseType = "free" THEN TRUE
  ELSE FALSE

\* validatePurchaseRequest, case FLEXIBLE
validateFlexiblePurchase(purchaseType, topicIds) ==
  IF purchaseType = "bundle" THEN TRUE
  ELSE IF purchaseType \in {"individual", "individual_topics"} THEN Len(topicIds) # 0
  ELSE IF purchaseType = "free" THEN TRUE
  ELSE FALSE

\* validatePurchaseRequest: TRUE iff the result is {valid: true}.
\* planType "" , categoryId 0 and userId 0 are the falsy (missing) values; the empty
\* list of topic ids is also the missing one.
validatePurchaseRequest(planType, purchaseType, categoryId, topicIds, userId) ==
  IF planType = "" \/ categoryId = Absent \/ userId = Absent THEN FALSE
  ELSE CASE planType = "FREE" -> purchaseType = "free"
         [] planType = "INDIVIDUAL" -> validateIndividualPurchase(purchaseType, topicIds)
         [] planType = "BUNDLE" -> validateBundlePurchase(purchaseType)
         [] planType = "FLEXIBLE" -> validateFlexiblePurchase(purchaseType, topicIds)
         [] OTHER -> FALSE

\* The reduce of calculatePrice: sum + (topicPrices[topicId] || 0) over the selection,
\* from the left. topicPrices maps some topic ids to prices.
RECURSIVE reduceTopicPrices(_, _, _)
reduceTopicPrices(topicPrices, selectedTopicIds, sum) ==
  IF selectedTopicIds = << >> THEN sum
  ELSE LET topicId == Head(selectedTopicIds) IN
       reduceTopicPrices(topicPrices, Tail(selectedTopicIds),
                         sum + (IF topicId \in DOMAIN topicPrices
                                THEN topicPrices[topicId] ELSE 0))

\* A slip in the INDIVIDUAL case: the selection is summed also when it is empty.
calculatePriceIndividualNoCheck(topicPrices, selectedTopicIds) ==
  [threw |-> FALSE,
   finalPrice |-> reduceTopicPrices(topicPrices, selectedTopicIds, 0),
   topics |-> Len(selectedTopicIds),
   purchaseType |-> "individual_topics"]

\* calculatePrice, case INDIVIDUAL
calculatePriceIndividual(topicPrices, selectedTopicIds) ==
  IF Len(selectedTopicIds) = 0
  THEN [threw |-> TRUE, error |-> "INDIVIDUAL plan requires topic selection"]
  ELSE [threw |-> FALSE,
        finalPrice |-> reduceTopicPrices(topicPrices, selectedTopicIds, 0),
        topics |-> Len(selectedTopicIds),
        purchaseType |-> "individual_topics"]

\* A slip in the BUNDLE case: only a missing (zero) bundle price is refused.
calculatePriceBundleNegativeOk(bundlePrice) ==
  IF bundlePrice = 0
  THEN [threw |-> TRUE, error |-> "BUNDLE plan requires a valid bundle price"]
  ELSE [threw |-> FALSE, finalPrice |-> bundlePrice, purchaseType |-> "bundle"]

\* calculatePrice, case BUNDLE
calculatePriceBundle(bundlePrice) ==
  IF bundlePrice <= 0
  THEN [threw |-> TRUE, error |-> "BUNDLE plan requires a valid bundle price"]
  ELSE [threw |-> FALSE, finalPrice |-> bundlePrice, purchaseType |-> "bundle"]

\* A slip in the FLEXIBLE case: the cheaper of the two prices becomes finalPrice.
calculatePriceFlexibleCheapest(bundlePrice, topicPrices, selectedTopicIds) ==
  IF bundlePrice <= 0
  THEN [threw |-> TRUE, error |-> "FLEXIBLE plan requires a valid bundle price"]
  ELSE IF Len(selectedTopicIds) = 0
  THEN [threw |-> FALSE, finalPrice |-> bundlePrice, purchaseType |-> "bundle"]
  ELSE LET flexibleIndividualTotal == reduceTopicPrices(topicPrices, selectedTopicIds, 0)
       IN [threw |-> FALSE,
           finalPrice |-> IF bundlePrice < flexibleIndividualTotal
                          THEN bundlePrice ELSE flexibleIndividualTotal,
           bundlePrice |-> bundlePrice,
           individualTotal |-> flexibleIndividualTotal,
           isBundleCheaper |-> bundlePrice < flexibleIndividualTotal,
           topics |-> Len(selectedTopicIds),
           purchaseType |-> "individual_topics"]

\* calculatePrice, case FLEXIBLE
calculatePriceFlexible(bundlePrice, topicPrices, selectedTopicIds) ==
  IF bundlePrice <= 0
  THEN [threw |-> TRUE, error |-> "FLEXIBLE plan requires a valid bundle price"]
  ELSE IF Len(selectedTopicIds) = 0
  THEN [threw |-> FALSE, finalPrice |-> bundlePrice, purchaseType |-> "bundle"]
  ELSE LET flexibleIndividualTotal == reduceTopicPrices(topicPrices, selectedTopicIds, 0)
       IN [threw |-> FALSE,
           finalPrice |-> flexibleIndividualTotal,
           bundlePrice |-> bundlePrice,
           individualTotal |-> flexibleIndividualTotal,
           isBundleCheaper |-> bundlePrice < flexibleIndividualTotal,
           topics |-> Len(selectedTopicIds),
           purchaseType |-> "individual_topics"]

\* calculatePrice: the returned object, or the thrown error. bundlePrice 0 is also the
\* missing bundle price, an empty selection also the missing one.
calculatePrice(planType, bundlePrice, topicPrices, selectedTopicIds) ==
  CASE planType = "FREE" -> [threw |-> FALSE, finalPrice |-> 0, purchaseType |-> "free"]
    [] planType = "INDIVIDUAL" -> calculatePriceIndividual(topicPrices, selectedTopicIds)
    [] planType = "BUNDLE" -> calculatePriceBundle(bundlePrice)
    [] planType = "FLEXIBLE" ->
         calculatePriceFlexible(bundlePrice, topicPrices, selectedTopicIds)
    [] OTHER -> [threw |-> TRUE, error |-> "Unknown plan type"]

\* canPurchaseBundle: the plan types that sell the category as a bundle.
canPurchaseBundle(planType) == planType = "BUNDLE" \/ planType = "FLEXIBLE"

\* A getTopicsToUnlock whose FLEXIBLE case returns the selection whatever the kind.
getTopicsToUnlockFlexibleSelected(planType, purchaseType, categoryTopicIds, selectedTopicIds) ==
  CASE planType = "FREE" -> categoryTopicIds
    [] planType = "INDIVIDUAL" -> selectedTopicIds
    [] planType = "BUNDLE" -> categoryTopicIds
    [] planType = "FLEXIBLE" -> selectedTopicIds
    [] OTHER -> << >>

\* getTopicsToUnlock: the list of topic ids to grant.
getTopicsToUnlock(planType, purchaseType, categoryTopicIds, selectedTopicIds) ==
  CASE planType = "FREE" -> categoryTopicIds
    [] planType = "INDIVIDUAL" -> selectedTopicIds
    [] planType = "BUNDLE" -> categoryTopicIds
    [] planType = "FLEXIBLE" ->
         IF purchaseType = "bundle" THEN categoryTopicIds ELSE selectedTopicIds
    [] OTHER -> << >>

\* validateTopicAccess: topicEnrollment is the row's payment_status, "none" without a row.
validateTopicAccess(hasFreeTopic, topicEnrollment) ==
  IF hasFreeTopic THEN [hasAccess |-> TRUE, reason |-> "FREE_TOPIC"]
  ELSE IF topicEnrollment = "none" THEN [hasAccess |-> FALSE, reason |-> "NO_PURCHASE"]
  ELSE IF topicEnrollment \in {"paid", "free"}
       THEN [hasAccess |-> TRUE,
             reason |-> IF topicEnrollment = "paid" THEN "PURCHASED" ELSE "ENROLLED_FREE"]
  ELSE [hasAccess |-> FALSE, reason |-> "INVALID_ENROLLMENT"]

\* ------------------------------------------------------------- helpers
Range(s) == {s[i] : i \in 1..Len(s)}

\* The rows of topics with the given category_id.
TopicsOfCategory(categoryId) ==
  {t \in TopicIds : topics[t].exists /\ topics[t].category_id = categoryId}

RECURSIVE SetToSeq(_)
SetToSeq(S) ==
  IF S = {} THEN << >>
  ELSE LET m == CHOOSE x \in S : \A y \in S : x <= y IN <<m>> \o SetToSeq(S \ {m})

\* ------------------------------------------------------------ environment

\* The clock advances.
Tick ==
  /\ now < MaxTime
  /\ now' = now + 1
  /\ UNCHANGED <<category, topics, user_topics, topic_enrollments, bundles, orders, paid,
                 sessions, rows, call, inflight>>

\* An admin adds a topic to an existing category; ids are handed out in order.
AddTopic(t, categoryId, price, is_free) ==
  /\ ~topics[t].exists
  /\ \A s \in TopicIds : s < t => topics[s].exists
  /\ category[categoryId].exists
  /\ topics' = [topics EXCEPT ![t] = [exists |-> TRUE, category_id |-> categoryId,
                                      created_at |-> now, price |-> price, is_free |-> is_free]]
  /\ UNCHANGED <<now, category, user_topics, topic_enrollments, bundles, orders, paid,
                 sessions, rows, call, inflight>>

\* The value the controller's statements store for the request's bundle_price: a missing
\* one is passed as undefined and stored as NULL.
StoredBundlePrice(bundle_price) == IF bundle_price = Absent THEN Null ELSE bundle_price

\* createOrUpdateCategory: id Absent creates, any other id updates.
createOrUpdateCategory(id, plan_type, bundle_price) ==
  /\ IF plan_type = "" THEN UNCHANGED category
     ELSE IF validateCategoryPricing(bundle_price, plan_type) # "valid" THEN UNCHANGED category
     ELSE IF id # Absent
          THEN category' = [category EXCEPT ![id] =
                 IF @.exists THEN [exists |-> TRUE, plan_type |-> plan_type,
                                   bundle_price |-> StoredBundlePrice(bundle_price)]
                 ELSE @]
          ELSE IF \E c \in CategoryIds : ~category[c].exists
               THEN LET c == CHOOSE c \in CategoryIds :
                               ~category[c].exists /\ \A d \in CategoryIds : d < c => category[d].exists
                    IN category' = [category EXCEPT ![c] =
                         [exists |-> TRUE, plan_type |-> plan_type,
                          bundle_price |-> StoredBundlePrice(bundle_price)]]
               ELSE UNCHANGED category
  /\ UNCHANGED <<now, topics, user_topics, topic_enrollments, bundles, orders, paid,
                 sessions, rows, call, inflight>>

\* POST /categories and PUT /categories/:id of the admin router: the bundle price kept for
\* the plan type (a missing price is 0).
normalizedBundlePrice(plan_type, bundle_price) ==
  IF plan_type \in {"BUNDLE", "FLEXIBLE"} THEN bundle_price ELSE 0

\* The checks on plan_type and bundle_price both routes make before touching the table.
categoryRequestValid(plan_type, bundle_price) ==
  /\ plan_type \in PlanTypes
  /\ plan_type \in {"BUNDLE", "FLEXIBLE"} => normalizedBundlePrice(plan_type, bundle_price) > 0

\* POST /categories: inserts the category with the normalized bundle price.
postCategories(plan_type, bundle_price) ==
  /\ IF categoryRequestValid(plan_type, bundle_price)
        /\ \E c \in CategoryIds : ~category[c].exists
     THEN LET c == CHOOSE c \in CategoryIds :
                     ~category[c].exists /\ \A d \in CategoryIds : d < c => category[d].exists
          IN category' = [category EXCEPT ![c] =
               [exists |-> TRUE, plan_type |-> plan_type,
                bundle_price |-> normalizedBundlePrice(plan_type, bundle_price)]]
     ELSE UNCHANGED category
  /\ UNCHANGED <<now, topics, user_topics, topic_enrollments, bundles, orders, paid,
                 sessions, rows, call, inflight>>

\* PUT /categories/:id: 400 on an invalid request, 404 on a missing category, and 500
\* otherwise, because the handler reads the undeclared displayOrder before its UPDATE.
putCategoriesStatus(id, plan_type, bundle_price) ==
  IF ~categoryRequestValid(plan_type, bundle_price) THEN 400
  ELSE IF ~category[id].exists THEN 404
  ELSE 500

\* PUT /categories/:id: no path of the handler reaches the UPDATE.
putCategories(id, plan_type, bundle_price) ==
  /\ putCategoriesStatus(id, plan_type, bundle_price) \in {400, 404, 500}
  /\ UNCHANGED category
  /\ UNCHANGED <<now, topics, user_topics, topic_enrollments, bundles, orders, paid,
                 sessions, rows, call, inflight>>

\* ------------------------------------------------------- payment gateways

\* The customer pays a Razorpay order: the gateway now holds a payment for it and
\* hands out the signature of order_id|payment_id.
PayOrder(o) ==
  /\ o \in 1..Len(orders)
  /\ o \notin paid
  /\ paid' = paid \cup {o}
  /\ UNCHANGED <<now, category, topics, user_topics, topic_enrollments, bundles, orders,
                 sessions, rows, call, inflight>>

\* The signature check of both verify routes. A request names an order id and carries
\* a signature; the caller can only present the gateway's signature, so the check
\* passes exactly for an order the gateway holds a payment for (order id 0: forged).
isAuthentic(razorpay_order_id) == razorpay_order_id \in paid

\* razorpay.orders.create: the gateway refuses an amount below one major unit
\* (this includes NaN, the amount computed from a missing price).
GatewayAccepts(razorpayAmount) == razorpayAmount >= 100

\* The customer pays the Stripe checkout session created for (user, topic).
PaySession(u, t) ==
  /\ sessions[u][t] = "open"
  /\ sessions' = [sessions EXCEPT ![u][t] = "paid"]
  /\ UNCHANGED <<now, category, topics, user_topics, topic_enrollments, bundles, orders,
                 paid, rows, call, inflight>>

\* ------------------------------------------------- enrollment router (Razorpay)

\* A slip in an INSERT: no ON CONFLICT clause, on a table without the unique key.
StoredAfterPlainInsert(n) == n + 1

\* The rows stored under a key after INSERT ... ON CONFLICT (key): the statement stores a
\* row only when none has the key, otherwise it updates (or keeps) the one there.
StoredAfterInsertOnConflict(n) == IF n = 0 THEN 1 ELSE n

\* The stored rows after INSERT ... ON CONFLICT into the table, for user u and key k.
InsertOnConflict(r, table, u, k) ==
  [r EXCEPT ![table][u][k] = StoredAfterInsertOnConflict(@)]

\* INSERT INTO user_topics ... ON CONFLICT (user_id, topic_id) DO UPDATE SET payment_status
UpsertUserTopic(table, userId, topicId, status) ==
  [table EXCEPT ![userId][topicId] = status]

\* INSERT INTO user_category_bundles ... 'pending' ... ON CONFLICT DO UPDATE SET
\* payment_status, order_id. A new row takes the column defaults.
UpsertPendingBundle(row, orderId, time) ==
  IF row.payment_status = "none"
  THEN [payment_status |-> "pending", order_id |-> orderId, created_at |-> time,
        enrolled_at |-> time, future_topics_included |-> FALSE]
  ELSE [row EXCEPT !.payment_status = "pending", !.order_id = orderId]

\* The second half of create-order: the gateway order and the pending record.
CreateOrderPending(userId, topicId, categoryId, isBundle, price) ==
  IF ~GatewayAccepts(price * 100)
  THEN UNCHANGED <<user_topics, bundles, orders, rows>>
  ELSE /\ Len(orders) < MaxOrders
       /\ orders' = Append(orders, [amount |-> price * 100, userId |-> userId,
                                    topicId |-> IF isBundle THEN Absent ELSE topicId,
                                    categoryId |-> IF isBundle THEN categoryId ELSE Absent,
                                    isBundle |-> isBundle])
       /\ IF isBundle
          THEN /\ IF categoryId = Absent
                  THEN UNCHANGED <<bundles, rows>>
                  ELSE /\ bundles' = [bundles EXCEPT ![userId][categoryId] =
                                        UpsertPendingBundle(@, Len(orders) + 1, now)]
                       /\ rows' = InsertOnConflict(rows, "user_category_bundles",
                                                   userId, categoryId)
               /\ UNCHANGED user_topics
          ELSE /\ user_topics' = UpsertUserTopic(user_topics, userId, topicId, "pending")
               /\ rows' = InsertOnConflict(rows, "user_topics", userId, topicId)
               /\ UNCHANGED bundles

\* The price of a bundle order: category.bundle_price || amount. The driver returns a
\* numeric column as a string, so every stored price, '0.00' included, is truthy and only
\* NULL falls back to the request's amount.
BundleOrderPrice(bundle_price, amount) ==
  IF bundle_price # Null THEN bundle_price ELSE amount

\* POST /create-order
CreateOrder(userId, topicId, categoryId, amount, isBundle) ==
  /\ IF isBundle /\ categoryId # Absent
     THEN IF ~category[categoryId].exists
          THEN UNCHANGED <<user_topics, bundles, orders, rows>>
          ELSE IF bundles[userId][categoryId].payment_status = "completed"
          THEN UNCHANGED <<user_topics, bundles, orders, rows>>
          ELSE CreateOrderPending(userId, topicId, categoryId, isBundle,
                                  BundleOrderPrice(category[categoryId].bundle_price, amount))
     ELSE IF topicId # Absent
     THEN IF ~topics[topicId].exists
          THEN UNCHANGED <<user_topics, bundles, orders, rows>>
          ELSE IF topics[topicId].price = 0
          THEN /\ user_topics' = UpsertUserTopic(user_topics, userId, topicId, "completed")
               /\ rows' = InsertOnConflict(rows, "user_topics", userId, topicId)
               /\ UNCHANGED <<bundles, orders>>
          ELSE CreateOrderPending(userId, topicId, categoryId, isBundle, topics[topicId].price)
     ELSE UNCHANGED <<user_topics, bundles, orders, rows>>
  /\ UNCHANGED <<now, category, topics, topic_enrollments, paid, sessions, call, inflight>>

\* POST /create-order with isBundle, up to its first await after the checks: the category
\* lookup, the price and the already-purchased check. The request is then suspended on
\* the gateway while other requests are served.
CreateOrderCheck(userId, categoryId, amount) ==
  /\ ~inflight.active
  /\ IF ~category[categoryId].exists THEN UNCHANGED inflight
     ELSE IF bundles[userId][categoryId].payment_status = "completed" THEN UNCHANGED inflight
     ELSE inflight' = [active |-> TRUE, userId |-> userId, categoryId |-> categoryId,
                       price |-> BundleOrderPrice(category[categoryId].bundle_price, amount)]
  /\ UNCHANGED <<now, category, topics, user_topics, topic_enrollments, bundles, orders, paid,
                 sessions, rows, call>>

\* POST /create-order with isBundle, resumed: the gateway's order and the pending record.
CreateOrderRecord ==
  /\ inflight.active
  /\ CreateOrderPending(inflight.userId, Absent, inflight.categoryId, TRUE, inflight.price)
  /\ inflight' = NoRequest
  /\ UNCHANGED <<now, category, topics, topic_enrollments, paid, sessions, call>>

\* POST /enroll
Enroll(userId, topicId) ==
  /\ IF ~topics[topicId].exists
     THEN UNCHANGED <<user_topics, orders, rows>>
     ELSE IF topics[topicId].price < 1
     THEN /\ user_topics' = UpsertUserTopic(user_topics, userId, topicId, "completed")
          /\ rows' = InsertOnConflict(rows, "user_topics", userId, topicId)
          /\ UNCHANGED orders
     ELSE /\ Len(orders) < MaxOrders
          /\ orders' = Append(orders, [amount |-> topics[topicId].price * 100, userId |-> userId,
                                       topicId |-> topicId, categoryId |-> Absent,
                                       isBundle |-> FALSE])
          /\ user_topics' = UpsertUserTopic(user_topics, userId, topicId, "pending")
          /\ rows' = InsertOnConflict(rows, "user_topics", userId, topicId)
  /\ UNCHANGED <<now, category, topics, topic_enrollments, bundles, paid, sessions,
                 call, inflight>>

\* UPDATE user_topics SET payment_status = ... WHERE user_id AND topic_id
UpdateUserTopic(table, userId, topicId, status) ==
  IF table[userId][topicId] = "none" THEN table
  ELSE [table EXCEPT ![userId][topicId] = status]

\* POST /verify-payment
VerifyPayment(razorpay_order_id, userId, topicId) ==
  /\ IF isAuthentic(razorpay_order_id)
     THEN user_topics' = UpdateUserTopic(user_topics, userId, topicId, "completed")
     ELSE UNCHANGED user_topics
  /\ UNCHANGED <<now, category, topics, topic_enrollments, bundles, orders, paid,
                 sessions, rows, call, inflight>>

\* A slip in the plan test: FLEXIBLE treated like BUNDLE.
futureTopicsIncludedFlexibleToo(planType) == planType \in {"BUNDLE", "FLEXIBLE"}

\* futureTopicsIncluded of verify-bundle-payment
futureTopicsIncluded(planType) == planType = "BUNDLE"

\* A slip in the UPDATE: enrolled_at is left at the row's creation time.
CompleteBundleKeepsEnrolledAt(row, futureIncluded, time) ==
  IF row.payment_status = "none" THEN row
  ELSE [row EXCEPT !.payment_status = "completed", !.future_topics_included = futureIncluded]

\* UPDATE user_category_bundles SET payment_status = 'completed', future_topics_included,
\* enrolled_at = NOW() WHERE user_id AND category_id
CompleteBundle(row, futureIncluded, time) ==
  IF row.payment_status = "none" THEN row
  ELSE [row EXCEPT !.payment_status = "completed", !.future_topics_included = futureIncluded,
                   !.enrolled_at = time]

\* The response status of verify-bundle-payment.
VerifyBundlePaymentStatus(razorpay_order_id, categoryId) ==
  IF ~isAuthentic(razorpay_order_id) THEN 400
  ELSE IF ~category[categoryId].exists THEN 404
  ELSE 200

\* POST /verify-bundle-payment
VerifyBundlePayment(razorpay_order_id, userId, categoryId) ==
  /\ IF VerifyBundlePaymentStatus(razorpay_order_id, categoryId) = 200
     THEN /\ bundles' = [bundles EXCEPT ![userId][categoryId] =
                CompleteBundle(@, futureTopicsIncluded(category[categoryId].plan_type), now)]
          /\ user_topics' = [user_topics EXCEPT ![userId] =
                [t \in TopicIds |-> IF t \in TopicsOfCategory(categoryId)
                                    THEN "completed" ELSE @[t]]]
          /\ rows' = [rows EXCEPT !.user_topics[userId] =
                [t \in TopicIds |-> IF t \in TopicsOfCategory(categoryId)
                                    THEN StoredAfterInsertOnConflict(@[t]) ELSE @[t]]]
     ELSE UNCHANGED <<user_topics, bundles, rows>>
  /\ UNCHANGED <<now, category, topics, topic_enrollments, orders, paid, sessions,
                 call, inflight>>

\* --------------------------------------------------- enrollment router (Stripe)

\* POST /enroll (Stripe): a checkout session, then INSERT ... ON CONFLICT DO NOTHING
StripeEnroll(userId, topicId) ==
  /\ IF ~topics[topicId].exists
     THEN UNCHANGED <<user_topics, sessions, rows>>
     ELSE /\ sessions' = [sessions EXCEPT ![userId][topicId] = IF @ = "none" THEN "open" ELSE @]
          /\ user_topics' = [user_topics EXCEPT ![userId][topicId] =
                                IF @ = "none" THEN "pending" ELSE @]
          /\ rows' = InsertOnConflict(rows, "user_topics", userId, topicId)
  /\ UNCHANGED <<now, category, topics, topic_enrollments, bundles, orders, paid,
                 call, inflight>>

\* POST /verify-payment (Stripe): the session is named by the request, the pair by its metadata
StripeVerifyPayment(userId, topicId) ==
  /\ IF sessions[userId][topicId] = "paid"
     THEN user_topics' = UpdateUserTopic(user_topics, userId, topicId, "completed")
     ELSE UNCHANGED user_topics
  /\ UNCHANGED <<now, category, topics, topic_enrollments, bundles, orders, paid,
                 sessions, rows, call, inflight>>

\* POST /webhook (Stripe): a signed checkout.session.completed event
StripeWebhook(userId, topicId) ==
  /\ sessions[userId][topicId] = "paid"
  /\ user_topics' = UpdateUserTopic(user_topics, userId, topicId, "paid")
  /\ UNCHANGED <<now, category, topics, topic_enrollments, bundles, orders, paid,
                 sessions, rows, call, inflight>>

\* ------------------------------------------------------- purchase controller

\* The payment_status createPurchase writes.
PurchaseStatus(planType) == IF planType = "FREE" THEN "free" ELSE "paid"

\* A slip in the controller: the request is not validated against the plan.
createPurchaseStatusUnvalidated(userId, categoryId, purchaseType, selectedTopicIds) ==
  IF userId = Absent \/ categoryId = Absent THEN 400
  ELSE IF ~category[categoryId].exists THEN 404
  ELSE 200

\* The response status of createPurchase.
createPurchaseStatus(userId, categoryId, purchaseType, selectedTopicIds) ==
  IF userId = Absent \/ categoryId = Absent THEN 400
  ELSE IF ~category[categoryId].exists THEN 404
  ELSE IF ~validatePurchaseRequest(category[categoryId].plan_type, purchaseType, categoryId,
                                   selectedTopicIds, userId) THEN 400
  ELSE 200

\* The topic ids createPurchase grants.
createPurchaseGrants(categoryId, purchaseType, selectedTopicIds) ==
  getTopicsToUnlock(category[categoryId].plan_type, purchaseType,
                    SetToSeq(TopicsOfCategory(categoryId)), selectedTopicIds)

\* createPurchase
createPurchase(userId, categoryId, purchaseType, selectedTopicIds) ==
  /\ IF createPurchaseStatus(userId, categoryId, purchaseType, selectedTopicIds) = 200
     THEN LET topicsToUnlock == createPurchaseGrants(categoryId, purchaseType, selectedTopicIds)
          IN /\ topic_enrollments' = [topic_enrollments EXCEPT ![userId] =
                  [t \in TopicIds |-> IF t \in Range(topicsToUnlock)
                                      THEN PurchaseStatus(category[categoryId].plan_type)
                                      ELSE @[t]]]
             /\ rows' = [rows EXCEPT !.topic_enrollments[userId] =
                  [t \in TopicIds |-> IF t \in Range(topicsToUnlock)
                                      THEN StoredAfterInsertOnConflict(@[t]) ELSE @[t]]]
     ELSE UNCHANGED <<topic_enrollments, rows>>
  /\ UNCHANGED <<now, category, topics, user_topics, bundles, orders, paid, sessions,
                 call, inflight>>

\* checkTopicAccess: userId Absent is an unauthenticated request.
checkTopicAccess(userId, topicId) ==
  IF userId = Absent THEN [status |-> 401, hasAccess |-> FALSE, reason |-> "Unauthorized"]
  ELSE IF ~topics[topicId].exists
       THEN [status |-> 404, hasAccess |-> FALSE, reason |-> "Topic not found"]
  ELSE LET accessValidation ==
             validateTopicAccess(topics[topicId].is_free, topic_enrollments[userId][topicId])
       IN [status |-> 200, hasAccess |-> accessValidation.hasAccess,
           reason |-> accessValidation.reason]

\* ---------------------------------------------------------- access evaluators

\* A slip in the temporal rule: the future-topics flag is not consulted.
BundleCoversIgnoresFuture(topicCreatedAt, bundleEnrolledAt, futureIncluded) ==
  topicCreatedAt <= bundleEnrolledAt

\* The temporal rule of user-topic-access.
BundleCovers(topicCreatedAt, bundleEnrolledAt, futureIncluded) ==
  LET hasAccess == topicCreatedAt <= bundleEnrolledAt IN
  IF ~hasAccess /\ futureIncluded THEN TRUE ELSE hasAccess

\* GET /user-topic-access/:user_id/:topic_id
UserTopicAccess(user_id, topic_id) ==
  IF user_topics[user_id][topic_id] # "none"
  THEN [hasAccess |-> user_topics[user_id][topic_id] = "completed", accessType |-> "individual"]
  ELSE IF ~topics[topic_id].exists
  THEN [hasAccess |-> FALSE, accessType |-> "none"]
  ELSE LET bundleEnrollment == bundles[user_id][topics[topic_id].category_id] IN
       IF bundleEnrollment.payment_status # "completed"
       THEN [hasAccess |-> FALSE, accessType |-> "none"]
       ELSE [hasAccess |-> BundleCovers(topics[topic_id].created_at,
                                        bundleEnrollment.enrolled_at,
                                        bundleEnrollment.future_topics_included),
             accessType |-> "bundle"]

\* The HTTP response of user-topic-access: every path that reads the tables answers
\* through res.json, status 200.
UserTopicAccessResponse(user_id, topic_id) ==
  [status |-> 200, body |-> UserTopicAccess(user_id, topic_id)]

\* The topics category-topics-access adds from a completed bundle enrollment.
BundleAccessibleTopics(user_id, category_id) ==
  LET bundleEnrollment == bundles[user_id][category_id] IN
  IF bundleEnrollment.payment_status # "completed" THEN {}
  ELSE {t \in TopicsOfCategory(category_id) :
          IF topics[t].created_at <= bundleEnrollment.enrolled_at THEN TRUE
          ELSE bundleEnrollment.future_topics_included}

\* The directly enrolled topics category-topics-access adds.
DirectAccessibleTopics(user_id, category_id) ==
  {t \in TopicsOfCategory(category_id) : user_topics[user_id][t] = "completed"}

\* GET /category-topics-access/:user_id/:category_id: accessibleTopics as a list
CategoryTopicsAccess(user_id, category_id) ==
  SetToSeq(BundleAccessibleTopics(user_id, category_id)
           \cup DirectAccessibleTopics(user_id, category_id))

\* ------------------------------------------------------------ specifications
OrderIdInputs == 0..MaxOrders
SelectionInputs == {<< >>} \cup {<<t>> : t \in TopicIds} \cup {<<1, 2>>}
PlanTypeInputs == PlanTypes \cup {"", "PREMIUM"}

\* Catalog administration over the given topic and category ids.
Admin(T, C) ==
  \/ \E t \in T, c \in C :
       \/ AddTopic(t, c, 0, TRUE)
       \/ AddTopic(t, c, 40, FALSE)
  \/ \E p \in PlanTypeInputs, b \in BundlePriceInputs :
       /\ \E c \in C : ~category[c].exists
       /\ postCategories(p, b)
  \/ \E id \in C \cup {Absent}, p \in PlanTypeInputs, b \in BundlePriceInputs :
       /\ id = Absent => \E c \in C : ~category[c].exists
       /\ createOrUpdateCategory(id, p, b)
  \/ \E id \in C, p \in PlanTypeInputs, b \in BundlePriceInputs : putCategories(id, p, b)

\* Requests to the Razorpay enrollment router by users U about topics T and categories C.
Razorpay(U, T, C) ==
  \/ \E o \in OrderIdInputs : PayOrder(o)
  \/ \E u \in U, t \in T \cup {Absent}, c \in C \cup {Absent}, a \in AmountInputs,
        b \in BOOLEAN : CreateOrder(u, t, c, a, b)
  \/ \E u \in U, t \in T : Enroll(u, t)
  \/ \E o \in OrderIdInputs, u \in U, t \in T : VerifyPayment(o, u, t)
  \/ \E o \in OrderIdInputs, u \in U, c \in C : VerifyBundlePayment(o, u, c)

\* Requests to the Stripe enrollment router.
Stripe(U, T) ==
  \/ \E u \in U, t \in T : PaySession(u, t)
  \/ \E u \in U, t \in T : StripeEnroll(u, t)
  \/ \E u \in U, t \in T : StripeVerifyPayment(u, t)
  \/ \E u \in U, t \in T : StripeWebhook(u, t)

\* Requests to the purchase controller.
Purchase(U, C) ==
  \E u \in U \cup {Absent}, c \in C \cup {Absent}, k \in PurchaseTypes, s \in SelectionInputs :
    createPurchase(u, c, k, s)

\* The Razorpay router: one user, one category, one topic.
Next ==
  \/ Tick
  \/ Admin({1}, {1})
  \/ Razorpay({1}, {1}, {1})

Spec == Init /\ [][Next]_vars

\* Both routers on user_topics: one user, one category, one topic.
NextStripe ==
  \/ Tick
  \/ Admin({1}, {1})
  \/ Razorpay({1}, {1}, {1})
  \/ Stripe({1}, {1})

SpecStripe == Init /\ [][NextStripe]_vars

\* The purchase controller: one user, two categories, two topics.
NextPurchase ==
  \/ Admin({1, 2}, {1, 2})
  \/ Purchase({1}, {1, 2})

SpecPurchase == Init /\ [][NextPurchase]_vars

\* Bundle requests to the Razorpay router: create-order with isBundle and
\* verify-bundle-payment, the only writers of user_category_bundles.
RazorpayBundle(U, C) ==
  \/ \E o \in OrderIdInputs : PayOrder(o)
  \/ \E u \in U, c \in C \cup {Absent}, a \in AmountInputs :
       CreateOrder(u, Absent, c, a, TRUE)
  \/ \E o \in OrderIdInputs, u \in U, c \in C : VerifyBundlePayment(o, u, c)

\* The bundle life cycle: one user, one category, one topic.
NextBundle ==
  \/ Tick
  \/ Admin({1}, {1})
  \/ RazorpayBundle({1}, {1})

SpecBundle == Init /\ [][NextBundle]_vars

\* Bundle requests served concurrently: create-order is two steps, and any request may be
\* served between them.
RazorpayBundleConcurrent(U, C) ==
  \/ \E o \in OrderIdInputs : PayOrder(o)
  \/ \E u \in U, c \in C, a \in AmountInputs : CreateOrderCheck(u, c, a)
  \/ CreateOrderRecord
  \/ \E o \in OrderIdInputs, u \in U, c \in C : VerifyBundlePayment(o, u, c)

\* The bundle life cycle with concurrent requests: one user, one category, one topic.
NextConcurrent ==
  \/ Tick
  \/ Admin({1}, {1})
  \/ RazorpayBundleConcurrent({1}, {1})

SpecConcurrent == Init /\ [][NextConcurrent]_vars

\* ------------------------------------------------- the handlers' statements
\* Each write the handlers make to the three enrollment tables, as a statement of its
\* own. Requests that interleave are sequences of these statements in some order.

\* INSERT INTO user_topics ... ON CONFLICT DO UPDATE (create-order, enroll,
\* verify-bundle-payment)
UpsertUserTopicStatement(userId, topicId, status) ==
  /\ user_topics' = UpsertUserTopic(user_topics, userId, topicId, status)
  /\ rows' = InsertOnConflict(rows, "user_topics", userId, topicId)
  /\ UNCHANGED <<now, category, topics, topic_enrollments, bundles, orders, paid, sessions,
                 call, inflight>>

\* UPDATE user_topics SET payment_status = 'completed' (verify-payment)
UpdateUserTopicStatement(userId, topicId) ==
  /\ user_topics' = UpdateUserTopic(user_topics, userId, topicId, "completed")
  /\ UNCHANGED <<now, category, topics, topic_enrollments, bundles, orders, paid,
                 sessions, rows, call, inflight>>

\* INSERT INTO user_category_bundles ... 'pending' ... ON CONFLICT DO UPDATE (create-order)
UpsertPendingBundleStatement(userId, categoryId, orderId) ==
  /\ bundles' = [bundles EXCEPT ![userId][categoryId] = UpsertPendingBundle(@, orderId, now)]
  /\ rows' = InsertOnConflict(rows, "user_category_bundles", userId, categoryId)
  /\ UNCHANGED <<now, category, topics, user_topics, topic_enrollments, orders,
                 paid, sessions, call, inflight>>

\* UPDATE user_category_bundles SET payment_status = 'completed' ... (verify-bundle-payment)
CompleteBundleStatement(userId, categoryId, futureIncluded) ==
  /\ bundles' = [bundles EXCEPT ![userId][categoryId] = CompleteBundle(@, futureIncluded, now)]
  /\ UNCHANGED <<now, category, topics, user_topics, topic_enrollments, orders, paid, sessions,
                 rows, call, inflight>>

\* INSERT INTO topic_enrollments ... ON CONFLICT DO UPDATE (createPurchase)
UpsertTopicEnrollmentStatement(userId, topicId, status) ==
  /\ topic_enrollments' = [topic_enrollments EXCEPT ![userId][topicId] = status]
  /\ rows' = InsertOnConflict(rows, "topic_enrollments", userId, topicId)
  /\ UNCHANGED <<now, category, topics, user_topics, bundles, orders, paid, sessions,
                 call, inflight>>

\* The statements of users U on topics T and categories C.
Statements(U, T, C) ==
  \/ \E u \in U, t \in T, st \in {"pending", "completed"} : UpsertUserTopicStatement(u, t, st)
  \/ \E u \in U, t \in T : UpdateUserTopicStatement(u, t)
  \/ \E u \in U, c \in C, o \in OrderIdInputs \ {0} : UpsertPendingBundleStatement(u, c, o)
  \/ \E u \in U, c \in C, f \in BOOLEAN : CompleteBundleStatement(u, c, f)
  \/ \E u \in U, t \in T, st \in {"free", "paid"} : UpsertTopicEnrollmentStatement(u, t, st)

\* Any order of the statements: one user, one category, two topics.
NextStatements ==
  \/ Tick
  \/ Statements({1}, {1, 2}, {1})

SpecStatements == Init /\ [][NextStatements]_vars

\* ------------------------------------------------------- the plan-type rules
\* One call of a rule of planTypeValidation, on arguments drawn from the input sets.

SelectedTopicIdsInputs == UNION {[1..n -> TopicIds] : n \in 0..MaxSelected}
TopicPricesInputs ==
  {[t \in {1, 2} |-> 40], [t \in {1, 2} |-> IF t = 1 THEN 10 ELSE 40], [t \in {1} |-> 40]}
PriceInputs == {-5, 0, 50}

CallValidateCategoryPricing(bundle_price, planType) ==
  /\ call.fn = "none"
  /\ call' = [fn |-> "validateCategoryPricing", bundle_price |-> bundle_price,
              planType |-> planType,
              result |-> validateCategoryPricing(bundle_price, planType)]
  /\ UNCHANGED <<now, category, topics, user_topics, topic_enrollments, bundles, orders, paid,
                 sessions, rows, inflight>>

CallValidatePurchaseRequest(planType, purchaseType, categoryId, topicIds, userId) ==
  /\ call.fn = "none"
  /\ call' = [fn |-> "validatePurchaseRequest", planType |-> planType,
              purchaseType |-> purchaseType, categoryId |-> categoryId,
              topicIds |-> topicIds, userId |-> userId,
              result |-> validatePurchaseRequest(planType, purchaseType, categoryId,
                                                 topicIds, userId)]
  /\ UNCHANGED <<now, category, topics, user_topics, topic_enrollments, bundles, orders, paid,
                 sessions, rows, inflight>>

CallCalculatePrice(planType, bundlePrice, topicPrices, selectedTopicIds) ==
  /\ call.fn = "none"
  /\ call' = [fn |-> "calculatePrice", planType |-> planType, bundlePrice |-> bundlePrice,
              topicPrices |-> topicPrices, selectedTopicIds |-> selectedTopicIds,
              result |-> calculatePrice(planType, bundlePrice, topicPrices,
                                        selectedTopicIds)]
  /\ UNCHANGED <<now, category, topics, user_topics, topic_enrollments, bundles, orders, paid,
                 sessions, rows, inflight>>

\* The ids of a category's topics, as the topics query returns them: each id once.
CategoryTopicIdsInputs ==
  {s \in UNION {[1..n -> TopicIds] : n \in 0..Cardinality(TopicIds)} :
     \A i, j \in DOMAIN s : s[i] = s[j] => i = j}

CallGetTopicsToUnlock(planType, purchaseType, categoryTopicIds, selectedTopicIds) ==
  /\ call.fn = "none"
  /\ call' = [fn |-> "getTopicsToUnlock", planType |-> planType,
              purchaseType |-> purchaseType, categoryTopicIds |-> categoryTopicIds,
              selectedTopicIds |-> selectedTopicIds,
              result |-> getTopicsToUnlock(planType, purchaseType, categoryTopicIds,
                                           selectedTopicIds)]
  /\ UNCHANGED <<now, category, topics, user_topics, topic_enrollments, bundles, orders, paid,
                 sessions, rows, inflight>>

NextRules ==
  \/ \E b \in PriceInputs, p \in PlanTypeInputs : CallValidateCategoryPricing(b, p)
  \/ \E p \in PlanTypeInputs, k \in PurchaseTypes, c \in CategoryIds \cup {Absent},
        s \in SelectedTopicIdsInputs, u \in UserIds \cup {Absent} :
       CallValidatePurchaseRequest(p, k, c, s, u)
  \/ \E p \in PlanTypeInputs, b \in PriceInputs, tp \in TopicPricesInputs,
        s \in SelectedTopicIdsInputs : CallCalculatePrice(p, b, tp, s)
  \/ \E p \in PlanTypeInputs, k \in PurchaseTypes, ct \in CategoryTopicIdsInputs,
        s \in SelectedTopicIdsInputs : CallGetTopicsToUnlock(p, k, ct, s)

SpecRules == Init /\ [][NextRules]_vars

\* ------------------------------------------------------------------ claims

PaidStatuses == {"paid", "completed", "free"}
TerminalStatuses == {"paid", "completed", "free", "failed"}

\* The access rule of the data model, over the given individual-enrollment table.
Entitled(table, u, t) ==
  \/ topics[t].is_free
  \/ table[u][t] \in PaidStatuses
  \/ LET b == bundles[u][topics[t].category_id] IN
       /\ b.payment_status = "completed"
       /\ topics[t].created_at <= b.enrolled_at \/ b.future_topics_included

\* C1: for every user and every topic, each access evaluator reports the topic
\* accessible iff it is free, or an individual enrollment is paid/completed/free, or a
\* completed bundle enrollment of its category covers it (created before enrolledAt, or
\* future topics included).
C1_AccessIffEntitled ==
  \A u \in UserIds, t \in TopicIds :
    topics[t].exists =>
      /\ UserTopicAccess(u, t).hasAccess <=> Entitled(user_topics, u, t)
      /\ checkTopicAccess(u, t).hasAccess <=> Entitled(topic_enrollments, u, t)

\* C2: when a direct row exists, the single-topic check answers from that row alone:
\* hasAccess iff its status is paid, completed or free, with accessType individual.
C2_DirectRowDecides ==
  \A u \in UserIds, t \in TopicIds :
    user_topics[u][t] # "none" =>
      UserTopicAccess(u, t) = [hasAccess |-> user_topics[u][t] \in PaidStatuses,
                               accessType |-> "individual"]

\* C3: without a direct row, the single-topic check denies with accessType none when no
\* completed bundle enrollment exists for the topic's category, and otherwise grants iff
\* the topic was created no later than enrolledAt or future topics are included.
C3_BundleRule ==
  \A u \in UserIds, t \in TopicIds :
    (topics[t].exists /\ user_topics[u][t] = "none") =>
      LET b == bundles[u][topics[t].category_id] IN
      IF b.payment_status # "completed"
      THEN UserTopicAccess(u, t) = [hasAccess |-> FALSE, accessType |-> "none"]
      ELSE /\ UserTopicAccess(u, t).hasAccess =
                (topics[t].created_at <= b.enrolled_at \/ b.future_topics_included)
           /\ topics[t].created_at > b.enrolled_at =>
                UserTopicAccess(u, t).hasAccess = b.future_topics_included

\* A topic created after enrolledAt, no direct row: once denied (no future topics) and
\* once granted (future topics included).
C3_Witness ==
  \E u \in UserIds, t \in TopicIds :
    /\ topics[t].exists /\ user_topics[u][t] = "none"
    /\ bundles[u][topics[t].category_id].payment_status = "completed"
    /\ topics[t].created_at > bundles[u][topics[t].category_id].enrolled_at
    /\ ~bundles[u][topics[t].category_id].future_topics_included
    /\ UserTopicAccess(u, t) = [hasAccess |-> FALSE, accessType |-> "bundle"]

\* C4: accessibleTopics is the duplicate-free union of the category's topics covered by
\* a completed bundle enrollment and the category's topics with a direct enrollment in
\* status completed, paid or free.
C4_AccessibleUnion ==
  \A u \in UserIds, c \in CategoryIds :
    LET result == CategoryTopicsAccess(u, c)
        byBundle == {t \in TopicsOfCategory(c) :
                       /\ bundles[u][c].payment_status = "completed"
                       /\ \/ topics[t].created_at <= bundles[u][c].enrolled_at
                          \/ bundles[u][c].future_topics_included}
        direct == {t \in TopicsOfCategory(c) : user_topics[u][t] \in PaidStatuses}
    IN /\ Range(result) = byBundle \cup direct
       /\ Len(result) = Cardinality(Range(result))
       /\ Range(result) \subseteq TopicsOfCategory(c)

\* A step in which a payment gateway confirms a payment to a verifying handler.
GatewayConfirmedStep ==
  \/ \E o \in OrderIdInputs, u \in UserIds, t \in TopicIds :
       isAuthentic(o) /\ VerifyPayment(o, u, t)
  \/ \E o \in OrderIdInputs, u \in UserIds, c \in CategoryIds :
       isAuthentic(o) /\ VerifyBundlePayment(o, u, c)
  \/ \E u \in UserIds, t \in TopicIds : sessions[u][t] = "paid" /\ StripeVerifyPayment(u, t)
  \/ \E u \in UserIds, t \in TopicIds : StripeWebhook(u, t)

PricedTopic(t) == topics[t].exists /\ topics[t].price > 0 /\ ~topics[t].is_free

\* C5: a row for a priced item starts as pending, and a row becomes paid or completed
\* only in a step in which the gateway confirmed a payment.
C5_PaidOnlyOnConfirmation ==
  [][ /\ \A u \in UserIds, t \in TopicIds :
           PricedTopic(t) =>
             /\ (user_topics[u][t] = "none" /\ user_topics'[u][t] # "none")
                   => (user_topics'[u][t] = "pending" \/ GatewayConfirmedStep)
             /\ (topic_enrollments[u][t] = "none" /\ topic_enrollments'[u][t] # "none")
                   => (topic_enrollments'[u][t] = "pending" \/ GatewayConfirmedStep)
             /\ (user_topics[u][t] \notin PaidStatuses /\ user_topics'[u][t] \in PaidStatuses)
                   => GatewayConfirmedStep
             /\ (topic_enrollments[u][t] \notin PaidStatuses
                   /\ topic_enrollments'[u][t] \in PaidStatuses) => GatewayConfirmedStep
      /\ \A u \in UserIds, c \in CategoryIds :
           /\ (bundles[u][c].payment_status = "none" /\ bundles'[u][c].payment_status # "none")
                 => bundles'[u][c].payment_status = "pending"
           /\ (bundles[u][c].payment_status # "completed"
                 /\ bundles'[u][c].payment_status = "completed") => GatewayConfirmedStep
    ]_vars

\* C6: a row in a terminal status keeps its status, except that a failed row may go
\* back to pending.
C6_TerminalIsFinal ==
  [][ /\ \A u \in UserIds, t \in TopicIds :
           /\ user_topics[u][t] \in TerminalStatuses =>
                \/ user_topics'[u][t] = user_topics[u][t]
                \/ user_topics[u][t] = "failed" /\ user_topics'[u][t] = "pending"
           /\ topic_enrollments[u][t] \in TerminalStatuses =>
                \/ topic_enrollments'[u][t] = topic_enrollments[u][t]
                \/ topic_enrollments[u][t] = "failed" /\ topic_enrollments'[u][t] = "pending"
      /\ \A u \in UserIds, c \in CategoryIds :
           bundles[u][c].payment_status \in TerminalStatuses =>
             \/ bundles'[u][c].payment_status = bundles[u][c].payment_status
             \/ bundles[u][c].payment_status = "failed"
                  /\ bundles'[u][c].payment_status = "pending"
    ]_vars

\* C7: once a bundle enrollment is completed, no step changes its enrolledAt or its
\* futureTopicsIncluded.
C7_CompletedOnce ==
  [][ \A u \in UserIds, c \in CategoryIds :
        bundles[u][c].payment_status = "completed" =>
          /\ bundles'[u][c].enrolled_at = bundles[u][c].enrolled_at
          /\ bundles'[u][c].future_topics_included = bundles[u][c].future_topics_included
    ]_vars

\* A verify-bundle-payment request that is answered 200 and finds the pair's row.
CompletesBundle(o, u, c) ==
  /\ VerifyBundlePaymentStatus(o, c) = 200
  /\ bundles[u][c].payment_status # "none"
  /\ VerifyBundlePayment(o, u, c)

\* C8: the step that completes a bundle purchase sets futureTopicsIncluded to TRUE when
\* the category's plan type at that moment is BUNDLE and to FALSE for any other plan type.
C8_FutureTopicsByPlan ==
  [][ \A o \in OrderIdInputs, u \in UserIds, c \in CategoryIds :
        CompletesBundle(o, u, c) =>
          /\ bundles'[u][c].payment_status = "completed"
          /\ category[c].plan_type = "BUNDLE" => bundles'[u][c].future_topics_included
          /\ category[c].plan_type # "BUNDLE" => ~bundles'[u][c].future_topics_included
    ]_vars

\* Completed bundle enrollments with and without future topics exist.
C8_Witness ==
  \E u \in UserIds, c \in CategoryIds :
    /\ bundles[u][c].payment_status = "completed"
    /\ bundles[u][c].future_topics_included
    /\ category[c].plan_type = "BUNDLE"
    /\ bundles[u][c].created_at < bundles[u][c].enrolled_at

\* C9: the step that completes a bundle purchase sets enrolledAt to the time of the
\* verification, so every topic of the category that exists at that time, also one
\* added after create-order, has createdAt <= enrolledAt and is covered by the bundle.
C9_EnrolledAtIsVerification ==
  [][ \A o \in OrderIdInputs, u \in UserIds, c \in CategoryIds :
        CompletesBundle(o, u, c) =>
          /\ bundles'[u][c].enrolled_at = now
          /\ \A t \in TopicsOfCategory(c) :
               /\ topics[t].created_at <= bundles'[u][c].enrolled_at
               /\ BundleCovers(topics[t].created_at, bundles'[u][c].enrolled_at, FALSE)
    ]_vars

\* A completed bundle whose category has a topic created after the pending row and
\* no later than enrolledAt, on a plan without future topics.
C9_Witness ==
  \E u \in UserIds, c \in CategoryIds, t \in TopicIds :
    /\ bundles[u][c].payment_status = "completed"
    /\ ~bundles[u][c].future_topics_included
    /\ t \in TopicsOfCategory(c)
    /\ bundles[u][c].created_at < topics[t].created_at
    /\ topics[t].created_at <= bundles[u][c].enrolled_at
    /\ t \in BundleAccessibleTopics(u, c)

\* C10: after every successful bundle purchase (a verify-bundle-payment answered 200,
\* with or without a preceding create-order, or a bundle-kind createPurchase answered
\* 200) the pair's bundle enrollment exists, completed, with enrolledAt the completion
\* time and futureTopicsIncluded = (plan type is BUNDLE).
C10_BundleRowAfterPurchase ==
  [][ /\ \A o \in OrderIdInputs, u \in UserIds, c \in CategoryIds :
           (VerifyBundlePaymentStatus(o, c) = 200 /\ VerifyBundlePayment(o, u, c)) =>
             /\ bundles'[u][c].payment_status = "completed"
             /\ bundles'[u][c].enrolled_at = now
             /\ bundles'[u][c].future_topics_included = (category[c].plan_type = "BUNDLE")
      /\ \A u \in UserIds, c \in CategoryIds, s \in SelectionInputs :
           (createPurchaseStatus(u, c, "bundle", s) = 200 /\ createPurchase(u, c, "bundle", s)) =>
             /\ bundles'[u][c].payment_status = "completed"
             /\ bundles'[u][c].enrolled_at = now
             /\ bundles'[u][c].future_topics_included = (category[c].plan_type = "BUNDLE")
    ]_vars

\* C11: a verification the gateway rejects (the signature check fails) moves the pending
\* row it names to failed, for verify-payment and for verify-bundle-payment.
C11_RejectionFails ==
  /\ \A o \in OrderIdInputs, u \in UserIds, t \in TopicIds :
       (~isAuthentic(o) /\ user_topics[u][t] = "pending") =>
         ENABLED (VerifyPayment(o, u, t) /\ user_topics'[u][t] = "failed")
  /\ \A o \in OrderIdInputs, u \in UserIds, c \in CategoryIds :
       (~isAuthentic(o) /\ bundles[u][c].payment_status = "pending") =>
         ENABLED (VerifyBundlePayment(o, u, c) /\ bundles'[u][c].payment_status = "failed")

\* C12: under any order of the statements of enroll, create-order, verify-payment,
\* verify-bundle-payment and createPurchase, each table stores at most one row per
\* (user, topic) or (user, category), and stores one exactly when the pair has a row.
C12_OneRowPerPair ==
  /\ \A u \in UserIds, t \in TopicIds :
       /\ rows.user_topics[u][t] <= 1
       /\ rows.topic_enrollments[u][t] <= 1
       /\ rows.user_topics[u][t] = 0 <=> user_topics[u][t] = "none"
       /\ rows.topic_enrollments[u][t] = 0 <=> topic_enrollments[u][t] = "none"
  /\ \A u \in UserIds, c \in CategoryIds :
       /\ rows.user_category_bundles[u][c] <= 1
       /\ rows.user_category_bundles[u][c] = 0 <=> bundles[u][c].payment_status = "none"

\* A bundle row completed with future topics and then purchased again (pending), a topic
\* row granted free and then paid: each is still the pair's single row.
C12_Witness ==
  \E u \in UserIds, c \in CategoryIds, t \in TopicIds :
    /\ bundles[u][c].payment_status = "pending"
    /\ bundles[u][c].future_topics_included
    /\ bundles[u][c].created_at < now
    /\ rows.user_category_bundles[u][c] = 1
    /\ user_topics[u][t] = "completed" /\ rows.user_topics[u][t] = 1
    /\ topic_enrollments[u][t] = "paid" /\ rows.topic_enrollments[u][t] = 1

\* C13: createPurchase writes an enrollment only for a request validatePurchaseRequest
\* accepts, so the resolver and the grants run after a passed validation; a purchase in
\* an INDIVIDUAL category with an empty selection leaves the enrollment store unchanged.
C13_ValidationPrecedesGrants ==
  [][ (topic_enrollments' # topic_enrollments \/ rows' # rows) =>
        \A u \in UserIds \cup {Absent}, c \in CategoryIds \cup {Absent},
           k \in PurchaseTypes, s \in SelectionInputs :
          createPurchase(u, c, k, s) =>
            /\ u # Absent /\ c # Absent /\ category[c].exists
            /\ validatePurchaseRequest(category[c].plan_type, k, c, s, u)
            /\ ~(category[c].plan_type = "INDIVIDUAL" /\ s = << >>)
            /\ \A t \in TopicIds :
                 topic_enrollments'[u][t] # topic_enrollments[u][t] =>
                   t \in Range(createPurchaseGrants(c, k, s))
    ]_vars

\* A purchase of one selected topic in an INDIVIDUAL category with two topics: the
\* selected topic is paid, the other has no row.
C13_Witness ==
  \E u \in UserIds, c \in CategoryIds :
    /\ category[c].exists /\ category[c].plan_type = "INDIVIDUAL"
    /\ TopicsOfCategory(c) = {1, 2}
    /\ topic_enrollments[u][1] = "paid"
    /\ topic_enrollments[u][2] = "none"

\* A call of validatePurchaseRequest with planType, categoryId and userId present.
CompleteRequest ==
  /\ call.fn = "validatePurchaseRequest"
  /\ call.planType # "" /\ call.categoryId # Absent /\ call.userId # Absent

\* C14: with planType, categoryId and userId present, a FREE-plan request is accepted
\* iff its kind is 'free' and a BUNDLE-plan request iff its kind is 'bundle'; an
\* individual, free, missing or unknown kind on a BUNDLE plan is rejected.
C14_FreeAndBundleKinds ==
  CompleteRequest =>
    /\ call.planType = "FREE" => call.result = (call.purchaseType = "free")
    /\ call.planType = "BUNDLE" => call.result = (call.purchaseType = "bundle")

\* validatePurchaseRequest({planType:'BUNDLE', purchaseType:'individual', categoryId:1,
\* userId:1}) is rejected.
C14_Witness ==
  /\ CompleteRequest
  /\ call.planType = "BUNDLE" /\ call.purchaseType = "individual"
  /\ call.categoryId = 1 /\ call.userId = 1 /\ call.topicIds = << >>
  /\ call.result = FALSE

\* C15: an INDIVIDUAL-plan request is accepted only when its kind is 'individual' and
\* at least one topic is selected; kind 'bundle', an empty selection and every other
\* kind, also with a non-empty selection, are rejected.
C15_IndividualKindOnly ==
  (CompleteRequest /\ call.planType = "INDIVIDUAL") =>
    call.result = (call.purchaseType = "individual" /\ Len(call.topicIds) > 0)

\* C16: a FLEXIBLE-plan request is accepted for kind 'bundle' whatever the selection,
\* for kind 'individual' exactly when the selection is non-empty, for kind 'free', and
\* for no other kind.
C16_FlexibleKinds ==
  (CompleteRequest /\ call.planType = "FLEXIBLE") =>
    call.result = \/ call.purchaseType = "bundle"
                  \/ call.purchaseType = "individual" /\ Len(call.topicIds) > 0
                  \/ call.purchaseType = "free"

\* C16 as amended: as C16, with 'individual_topics' accepted as another name of the
\* individual kind, also exactly when the selection is non-empty.
C16_FlexibleKindsWithAlias ==
  (CompleteRequest /\ call.planType = "FLEXIBLE") =>
    call.result = \/ call.purchaseType = "bundle"
                  \/ /\ call.purchaseType \in {"individual", "individual_topics"}
                     /\ Len(call.topicIds) > 0
                  \/ call.purchaseType = "free"

\* A FLEXIBLE request of kind 'individual_topics' with two selected topics is accepted.
C16_Witness ==
  /\ CompleteRequest
  /\ call.planType = "FLEXIBLE" /\ call.purchaseType = "individual_topics"
  /\ Len(call.topicIds) = 2
  /\ call.result = TRUE

\* C17: validateCategoryPricing and validatePurchaseRequest return a validation result
\* for every input, also for a plan type outside the four plan types; they never throw.
C17_ValidatorsNeverThrow ==
  /\ call.fn = "validateCategoryPricing" => call.result \in {"valid", "invalid"}
  /\ call.fn = "validatePurchaseRequest" => call.result \in BOOLEAN

\* The price a selection adds up to: each topic id's price (0 without one) times the
\* number of times the selection names it.
RECURSIVE SelectionTotal(_, _, _)
SelectionTotal(topicPrices, selectedTopicIds, ids) ==
  IF ids = {} THEN 0
  ELSE LET t == CHOOSE x \in ids : TRUE IN
       (IF t \in DOMAIN topicPrices THEN topicPrices[t] ELSE 0)
         * Cardinality({i \in 1..Len(selectedTopicIds) : selectedTopicIds[i] = t})
       + SelectionTotal(topicPrices, selectedTopicIds, ids \ {t})

\* The total of the selection of the latest call of calculatePrice.
CallTotal == SelectionTotal(call.topicPrices, call.selectedTopicIds, TopicIds)

\* C18: for a FLEXIBLE plan with bundlePrice > 0, an empty selection is priced at
\* bundlePrice with kind 'bundle'; a non-empty selection is priced at the sum of the
\* selected topics' prices with kind 'individual', isBundleCheaper = (bundlePrice < sum),
\* and finalPrice stays the sum also when the bundle is cheaper.
C18_FlexiblePrice ==
  (call.fn = "calculatePrice" /\ call.planType = "FLEXIBLE" /\ call.bundlePrice > 0) =>
    /\ ~call.result.threw
    /\ IF call.selectedTopicIds = << >>
       THEN /\ call.result.finalPrice = call.bundlePrice
            /\ call.result.purchaseType = "bundle"
       ELSE /\ call.result.finalPrice = CallTotal
            /\ call.result.purchaseType = "individual"
            /\ call.result.isBundleCheaper = (call.bundlePrice < CallTotal)

\* C18 as amended: as C18, with the kind of a non-empty selection reported under the
\* name 'individual_topics'.
C18_FlexiblePriceIndividualTopics ==
  (call.fn = "calculatePrice" /\ call.planType = "FLEXIBLE" /\ call.bundlePrice > 0) =>
    /\ ~call.result.threw
    /\ IF call.selectedTopicIds = << >>
       THEN /\ call.result.finalPrice = call.bundlePrice
            /\ call.result.purchaseType = "bundle"
       ELSE /\ call.result.finalPrice = CallTotal
            /\ call.result.purchaseType = "individual_topics"
            /\ call.result.isBundleCheaper = (call.bundlePrice < CallTotal)

\* calculatePrice({planType: FLEXIBLE, bundlePrice: 50, topicPrices: {1:40, 2:40},
\* selectedTopicIds: [1,2]}): finalPrice 80 although the bundle is cheaper.
C18_Witness ==
  /\ call.fn = "calculatePrice" /\ call.planType = "FLEXIBLE" /\ call.bundlePrice = 50
  /\ call.topicPrices = [t \in {1, 2} |-> 40]
  /\ call.selectedTopicIds = <<1, 2>>
  /\ call.result.finalPrice = 80
  /\ call.result.isBundleCheaper = TRUE

\* C19: for an INDIVIDUAL plan, calculatePrice returns finalPrice = the sum of
\* topicPrices[id] over the selected ids, and throws the empty-selection error, returning
\* nothing, when the selection is empty.
C19_IndividualPrice ==
  (call.fn = "calculatePrice" /\ call.planType = "INDIVIDUAL") =>
    IF call.selectedTopicIds = << >>
    THEN call.result = [threw |-> TRUE, error |-> "INDIVIDUAL plan requires topic selection"]
    ELSE /\ ~call.result.threw
         /\ call.result.finalPrice = CallTotal

\* An INDIVIDUAL selection of two differently priced topics costs their sum.
C19_Witness ==
  /\ call.fn = "calculatePrice" /\ call.planType = "INDIVIDUAL"
  /\ call.topicPrices = [t \in {1, 2} |-> IF t = 1 THEN 10 ELSE 40]
  /\ call.selectedTopicIds = <<2, 1>>
  /\ call.result.finalPrice = 50

\* C20: for a BUNDLE plan, calculatePrice returns finalPrice = bundlePrice with kind
\* 'bundle' whenever bundlePrice > 0, whatever topics are selected, and throws the
\* invalid-bundle-price error whenever bundlePrice is missing or <= 0.
C20_BundlePrice ==
  (call.fn = "calculatePrice" /\ call.planType = "BUNDLE") =>
    IF call.bundlePrice > 0
    THEN /\ ~call.result.threw
         /\ call.result.finalPrice = call.bundlePrice
         /\ call.result.purchaseType = "bundle"
    ELSE call.result = [threw |-> TRUE, error |-> "BUNDLE plan requires a valid bundle price"]

\* A BUNDLE price of 50 with two topics selected is still 50, kind 'bundle'.
C20_Witness ==
  /\ call.fn = "calculatePrice" /\ call.planType = "BUNDLE" /\ call.bundlePrice = 50
  /\ call.selectedTopicIds = <<1, 2>>
  /\ call.result.finalPrice = 50
  /\ call.result.purchaseType = "bundle"

\* C21: getTopicsToUnlock returns, as a set, the category's topic ids for a FREE or
\* BUNDLE plan, the selected ids for an INDIVIDUAL plan, and for a FLEXIBLE plan the
\* category's ids when the kind is 'bundle' and the selected ids otherwise.
C21_TopicsToUnlock ==
  call.fn = "getTopicsToUnlock" =>
    /\ call.planType \in {"FREE", "BUNDLE"} =>
         Range(call.result) = Range(call.categoryTopicIds)
    /\ call.planType = "INDIVIDUAL" =>
         Range(call.result) = Range(call.selectedTopicIds)
    /\ call.planType = "FLEXIBLE" =>
         Range(call.result) = IF call.purchaseType = "bundle"
                                THEN Range(call.categoryTopicIds)
                                ELSE Range(call.selectedTopicIds)

\* A FLEXIBLE bundle purchase with a one-topic selection unlocks both topics of the category.
C21_Witness ==
  /\ call.fn = "getTopicsToUnlock"
  /\ call.planType = "FLEXIBLE"
  /\ call.purchaseType = "bundle"
  /\ call.categoryTopicIds = <<1, 2>>
  /\ call.selectedTopicIds = <<1>>
  /\ Range(call.result) = {1, 2}

\* C22: the list getTopicsToUnlock returns never holds the same topic id twice, for every
\* plan type and every selection, a selection that repeats a topic included.
C22_NoDuplicateTopics ==
  call.fn = "getTopicsToUnlock" =>
    \A i, j \in DOMAIN call.result : call.result[i] = call.result[j] => i = j

\* C23: every stored category of plan BUNDLE or FLEXIBLE has a bundle price above zero and
\* every stored category of plan FREE or INDIVIDUAL has bundle price zero (or none),
\* whatever creates and updates were made.
C23_BundlePriceByPlan ==
  \A c \in CategoryIds :
    category[c].exists =>
      /\ category[c].plan_type \in {"BUNDLE", "FLEXIBLE"} => category[c].bundle_price > 0
      /\ category[c].plan_type \in {"FREE", "INDIVIDUAL"} =>
           category[c].bundle_price \in {0, Null}

\* No enrollment row of either table and no bundle enrollment of the topic's category.
NoPurchase(u, t) ==
  /\ user_topics[u][t] = "none"
  /\ topic_enrollments[u][t] = "none"
  /\ bundles[u][topics[t].category_id].payment_status = "none"

\* C24: an access check for a topic that does not exist answers not-found (404), not
\* hasAccess=false; for an existing priced topic without any purchase it answers
\* hasAccess=false and never an error.
C24_MissingTopicIsNotFound ==
  \A u \in UserIds, t \in TopicIds :
    /\ ~topics[t].exists =>
         /\ UserTopicAccessResponse(u, t).status = 404
         /\ checkTopicAccess(u, t).status = 404
    /\ (topics[t].exists /\ ~topics[t].is_free /\ NoPurchase(u, t)) =>
         /\ UserTopicAccessResponse(u, t).status = 200
         /\ ~UserTopicAccessResponse(u, t).body.hasAccess
         /\ checkTopicAccess(u, t).status = 200
         /\ ~checkTopicAccess(u, t).hasAccess

\* C25: user-topic-access reports hasAccess=true for a topic iff the topic's id is in
\* accessibleTopics of category-topics-access for the topic's category.
C25_SingleAgreesWithList ==
  \A u \in UserIds, t \in TopicIds :
    topics[t].exists =>
      (UserTopicAccess(u, t).hasAccess
         <=> t \in Range(CategoryTopicsAccess(u, topics[t].category_id)))

\* C26: a completed bundle enrollment never returns to pending, however create-order
\* (bundle) and verify-bundle-payment requests interleave.
C26_CompletedBundleStays ==
  [][\A u \in UserIds, c \in CategoryIds :
       bundles[u][c].payment_status = "completed" =>
         bundles'[u][c].payment_status # "pending"]_vars

\* A step of verify-payment or verify-bundle-payment.
VerifyStep ==
  \E o \in OrderIdInputs, u \in UserIds :
    \/ \E t \in TopicIds : VerifyPayment(o, u, t)
    \/ \E c \in CategoryIds : VerifyBundlePayment(o, u, c)

\* C27: a verified payment for order O completes only the (user, topic) or (user,
\* category) enrollment that create-order recorded for O, never another one named in the
\* verifying request's body.
C27_VerifiedOrderCompletesItsOwn ==
  [][((user_topics' # user_topics \/ bundles' # bundles) /\ VerifyStep) =>
       \E o \in paid :
         /\ \A u \in UserIds, t \in TopicIds :
              user_topics'[u][t] # user_topics[u][t] =>
                /\ u = orders[o].userId
                /\ IF orders[o].isBundle THEN t \in TopicsOfCategory(orders[o].categoryId)
                   ELSE t = orders[o].topicId
         /\ \A u \in UserIds, c \in CategoryIds :
              bundles'[u][c] # bundles[u][c] =>
                /\ orders[o].isBundle
                /\ u = orders[o].userId
                /\ c = orders[o].categoryId]_vars

\* C28: no bundle enrollment, pending or completed, is written for a category whose plan
\* type is FREE or INDIVIDUAL: a step that writes a bundle enrollment row does so for a
\* category that can be bought as a bundle.
C28_BundleRowsOnlyForBundlePlans ==
  [][\A u \in UserIds, c \in CategoryIds :
       bundles'[u][c] # bundles[u][c] => canPurchaseBundle(category[c].plan_type)]_vars

\* C29: the amount of a bundle order is determined by the category's stored bundle price
\* alone (in minor units), whatever amount the request supplies.
C29_BundleAmountFromStoredPrice ==
  [][Len(orders') > Len(orders) =>
       LET order == orders'[Len(orders')] IN
       (order.isBundle /\ order.categoryId # Absent) =>
         order.amount = category[order.categoryId].bundle_price * 100]_vars

\* C30: every enrollment createPurchase writes is for a topic of the category of the
\* purchase: the topics granted in one purchase all belong to one category the request
\* can name, and a selected topic of another category is never granted.
C30_GrantsWithinCategory ==
  [][topic_enrollments' # topic_enrollments =>
       \E c \in CategoryIds :
         /\ \E u \in UserIds, k \in PurchaseTypes, s \in SelectionInputs :
              createPurchase(u, c, k, s)
         /\ \A u \in UserIds, t \in TopicIds :
              (topic_enrollments'[u][t] # topic_enrollments[u][t] /\ topics[t].exists) =>
                t \in TopicsOfCategory(c)]_vars

====
